---- MODULE Spec2Model ----
(***************************************************************************)
(* Voucher bot (src/main.py): the vouchers table of the SQLite database,   *)
(* the combination algorithm, the claim transaction of _deliver_vouchers,  *)
(* the "used" command, the amount -> store negotiation of handle_message   *)
(* and the two ingestion paths (mail sweep, Excel import).                 *)
(*                                                                         *)
(* The database is modelled as SQLite in WAL mode behaves: `vouchers` is   *)
(* the committed table every reader sees, `lock` is the single write lock  *)
(* and each connection keeps its uncommitted table image (`work`) until it *)
(* commits or rolls back.  A statement that needs the lock while another   *)
(* connection holds it waits for the busy timeout and then raises.         *)
(***************************************************************************)
EXTENDS Integers, Sequences, FiniteSets, TLC

VARIABLES
    vouchers,        \* committed rows of the table, row id = position
    lock,            \* owner of the SQLite write lock, or NoHolder
    pending_amount,  \* the dict pending_amount: user -> target, NoSession if absent
    h,               \* per user: where the running handle_message call stands
    w,               \* per ingestion thread: idle, or staged (INSERT done, commit pending)
    claimCount,      \* history: per row id, how many committed claims moved it to pending
    usedClean,       \* history: per user, a completed "used" with no later committed claim
    engIn,           \* Combination algorithm harness: the voucher list
    engTarget,       \* Combination algorithm harness: the target
    engOut,          \* Combination algorithm harness: the result, or NoResult
    inbox,           \* per mail message: absent, unread or read
    job,             \* the mail sweep (ingest_emails_job), step by step
    xl               \* the Excel import (import_excel), row by row, with its counters

vars == <<vouchers, lock, pending_amount, h, w, claimCount, usedClean,
          engIn, engTarget, engOut, inbox, job, xl>>

storeVars == <<vouchers, lock, pending_amount, h, w, claimCount, usedClean>>

engVars == <<engIn, engTarget, engOut>>

ingVars == <<inbox, job, xl>>

----------------------------------------------------------------------------
(* Bounds of the model *)

NumUsers == 2

NumCodes == 2

MaxVouchers == 2

MaxNumber == 2

MaxLen == 3

MaxAmt == 3

MaxT == 5

MaxRows == 2

(* Program constant *)

MAX_VOUCHER_AMOUNT == 10000

----------------------------------------------------------------------------
(* Values *)

\* store IS NULL
NULL == <<"NULL">>

\* assigned_to IS NULL
NoUser == 0

NoHolder == [kind |-> "none", id |-> 0]

\* The connection of a handler call, of an ingestion thread.
UserConn(u) == [kind |-> "user", id |-> u]

ThreadConn(t) == [kind |-> t, id |-> 0]

NoWork == <<>>

NoSession == -1

NoResult == <<"noresult">>

Users == 1..NumUsers

Codes == 1..NumCodes

\* What a user can type as a number (re.fullmatch(r"\d+") then int()).
Numbers == (0..MaxNumber) \cup {MAX_VOUCHER_AMOUNT + 1}

\* Store labels are strings, modelled as sequences of characters.
\* What parse_subject yields for the subjects of the model: (amount, store),
\* the amount int(float("d+(.d+)?")) >= 0.
MailSubjects ==
    { [amount |-> 1, store |-> <<"a">>],
      [amount |-> 2, store |-> <<"_">>],
      [amount |-> 0, store |-> <<"a">>] }

\* What a spreadsheet row yields: amount = int(float(cell)), any integer;
\* store = the cell's text, or NULL without a store column.
ExcelRows ==
    { [amount |-> -1, store |-> <<"a">>],
      [amount |-> 0, store |-> <<"a">>],
      [amount |-> 1, store |-> NULL] }

----------------------------------------------------------------------------
(* Combination algorithm: best_combination *)

DpHas(dp, s) == \E i \in 1..Len(dp) : dp[i].sum = s

RECURSIVE DpItemsOverwrite(_, _, _, _, _, _)
\* Mutant: the inner loop without "new_sum not in dp" (a recorded sum is
\* overwritten by a later subset).
DpItemsOverwrite(dp, snap, i, vid, amt, target) ==
    IF i > Len(snap) THEN dp
    ELSE LET new_sum == snap[i].sum + amt
             entry == [sum |-> new_sum, ids |-> Append(snap[i].ids, vid)]
             dp2 == IF new_sum > target THEN dp
                    ELSE IF DpHas(dp, new_sum)
                    THEN [j \in 1..Len(dp) |-> IF dp[j].sum = new_sum THEN entry ELSE dp[j]]
                    ELSE Append(dp, entry)
         IN DpItemsOverwrite(dp2, snap, i + 1, vid, amt, target)

RECURSIVE DpItemsForgetId(_, _, _, _, _, _)
\* Mutant: dp[new_sum] = ids, without "+ [vid]".
DpItemsForgetId(dp, snap, i, vid, amt, target) ==
    IF i > Len(snap) THEN dp
    ELSE LET new_sum == snap[i].sum + amt
             dp2 == IF new_sum <= target /\ ~DpHas(dp, new_sum)
                    THEN Append(dp, [sum |-> new_sum, ids |-> snap[i].ids])
                    ELSE dp
         IN DpItemsForgetId(dp2, snap, i + 1, vid, amt, target)

RECURSIVE DpItems(_, _, _, _, _, _)
\* The inner loop: for current_sum, ids in list(dp.items()) -- `snap` is the
\* list() copy taken before the loop, `dp` the live dict in insertion order.
DpItems(dp, snap, i, vid, amt, target) ==
    IF i > Len(snap) THEN dp
    ELSE LET new_sum == snap[i].sum + amt
             dp2 == IF new_sum <= target /\ ~DpHas(dp, new_sum)
                    THEN Append(dp, [sum |-> new_sum, ids |-> Append(snap[i].ids, vid)])
                    ELSE dp
         IN DpItems(dp2, snap, i + 1, vid, amt, target)

RECURSIVE DpVouchers(_, _, _, _)
\* The outer loop: for vid, amt in vouchers.
DpVouchers(dp, vl, k, target) ==
    IF k > Len(vl) THEN dp
    ELSE DpVouchers(DpItems(dp, dp, 1, vl[k][1], vl[k][2], target), vl, k + 1, target)

\* vl is a sequence of <<id, amount>>; the result is <<chosen_ids, total>>.
best_combination(vl, target) ==
    LET dp == DpVouchers(<< [sum |-> 0, ids |-> <<>>] >>, vl, 1, target)
        best_sum == CHOOSE s \in {dp[i].sum : i \in 1..Len(dp)} :
                        \A j \in 1..Len(dp) : dp[j].sum <= s
        e == CHOOSE i \in 1..Len(dp) : dp[i].sum = best_sum
    IN <<dp[e].ids, best_sum>>

----------------------------------------------------------------------------

(* The vouchers table *)

\* A row as INSERT creates it: status DEFAULT 'available', assigned_to NULL.
NewRow(c) ==
    [code |-> c.code, amount |-> c.amount, store |-> c.store,
     status |-> "available", assigned_to |-> NoUser]

HasCode(db, code) == \E i \in 1..Len(db) : db[i].code = code

\* Mutant: INSERT OR REPLACE (the stored row is replaced by the candidate).
InsertOrReplace(db, c) ==
    IF HasCode(db, c.code)
    THEN [i \in 1..Len(db) |-> IF db[i].code = c.code THEN NewRow(c) ELSE db[i]]
    ELSE Append(db, NewRow(c))

\* Mutant: a plain INSERT into a table without the UNIQUE constraint.
InsertAlways(db, c) == Append(db, NewRow(c))

\* INSERT OR IGNORE against code TEXT NOT NULL UNIQUE; ids are AUTOINCREMENT.
InsertOrIgnore(db, c) ==
    IF HasCode(db, c.code) THEN db ELSE Append(db, NewRow(c))

\* SQLite LIKE compares ASCII letters case-insensitively ...
Fold(ch) == IF ch = "A" THEN "a" ELSE IF ch = "B" THEN "b" ELSE ch

\* ... and "_" in the pattern matches any single character.
CharMatch(p, ch) == p = "_" \/ Fold(p) = Fold(ch)

\* store LIKE '%' || substr || '%'  (NULL LIKE anything is not true).
Like(store, substr) ==
    /\ store # NULL
    /\ \E i \in 1..(Len(store) - Len(substr) + 1) :
           \A j \in 1..Len(substr) : CharMatch(substr[j], store[i + j - 1])

\* Mutant: the SELECT without "AND store LIKE ?".
MatchingAnyStore(db, substr) == {i \in 1..Len(db) : db[i].status = "available"}

\* Mutant: the SELECT without "status='available'".
MatchingAnyStatus(db, substr) == {i \in 1..Len(db) : Like(db[i].store, substr)}

\* WHERE status='available' AND store LIKE ?
Matching(db, substr) ==
    {i \in 1..Len(db) : db[i].status = "available" /\ Like(db[i].store, substr)}

\* ... ORDER BY amount DESC: every order of the matching ids with amounts
\* descending (SQL leaves the order of equal amounts open).
SelectAvailable(db, substr) ==
    LET ids == Matching(db, substr)
        n == Cardinality(ids)
    IN {r \in [1..n -> ids] :
           /\ \A i, j \in 1..n : i # j => r[i] # r[j]
           /\ \A i, j \in 1..n : i < j => db[r[i]].amount >= db[r[j]].amount}

\* Byte order of the characters (BINARY collation of ORDER BY store).
Ord(ch) ==
    CASE ch = "A" -> 65 [] ch = "B" -> 66 [] ch = "_" -> 95
      [] ch = "a" -> 97 [] ch = "b" -> 98 [] OTHER -> 0

StrLess(s, t) ==
    \E k \in 1..(Len(t)) :
        /\ \A j \in 1..(k - 1) : j <= Len(s) /\ s[j] = t[j]
        /\ \/ k = Len(s) + 1
           \/ k <= Len(s) /\ Ord(s[k]) < Ord(t[k])

\* SELECT DISTINCT store ... WHERE status='available' AND store IS NOT NULL
\* ORDER BY store
DistinctStores(db) ==
    LET labels == {db[i].store : i \in {k \in 1..Len(db) :
                       db[k].status = "available" /\ db[k].store # NULL}}
        n == Cardinality(labels)
    IN CHOOSE r \in [1..n -> labels] :
           \A i, j \in 1..n : i < j => StrLess(r[i], r[j])

\* Mutant: the SELECT without "AND assigned_to=?".
PendingIdsAnyUser(db, u) == {i \in 1..Len(db) : db[i].status = "pending"}

\* SELECT id ... WHERE status='pending' AND assigned_to=?
PendingIds(db, u) ==
    {i \in 1..Len(db) : db[i].status = "pending" /\ db[i].assigned_to = u}

\* Mutant: the UPDATE without "assigned_to=?".
MarkPendingNoOwner(db, vid, u) ==
    [i \in 1..Len(db) |->
        IF i = vid THEN [db[i] EXCEPT !.status = "pending"] ELSE db[i]]

\* UPDATE vouchers SET status='pending', assigned_to=? WHERE id=?
MarkPending(db, vid, u) ==
    [i \in 1..Len(db) |->
        IF i = vid THEN [db[i] EXCEPT !.status = "pending", !.assigned_to = u]
        ELSE db[i]]

\* Mutant: the UPDATE lost (nothing written).
MarkUsedNothing(db, ids) == db

\* Mutant: the UPDATE hands the vouchers back (status='available').
MarkUsedReleases(db, ids) ==
    [i \in 1..Len(db) |->
        IF i \in ids THEN [db[i] EXCEPT !.status = "available"] ELSE db[i]]

\* UPDATE vouchers SET status='used' WHERE id IN (...)
MarkUsed(db, ids) ==
    [i \in 1..Len(db) |->
        IF i \in ids THEN [db[i] EXCEPT !.status = "used"] ELSE db[i]]

\* The write lock can be taken (BEGIN IMMEDIATE, or the first write of an
\* implicit transaction) only when no other connection holds it.
LockFree == lock = NoHolder

\* Mutant: statements written straight to the table (autocommit), so a
\* ROLLBACK keeps what was written.
RollbackKeeps(committed, uncommitted) == uncommitted

\* ROLLBACK: the committed table stays, the uncommitted image is dropped.
Rollback(committed, uncommitted) == committed

\* COMMIT: the uncommitted image becomes the committed table.
Commit(committed, uncommitted) == uncommitted

----------------------------------------------------------------------------
(* handle_message: one call per user at a time *)

\* h[u]: pc is where the call stands, work the uncommitted table image of
\* its connection, ids the chosen_ids of an allocation, rows the ids read by
\* "used", outcome/count what it replies.
Idle ==
    [pc |-> "idle", target |-> 0, store |-> <<>>, ids |-> <<>>, done |-> 0,
     rows |-> {}, work |-> NoWork, outcome |-> "none", count |-> 0]

Reply(outcome, count) == [Idle EXCEPT !.pc = "reply", !.outcome = outcome, !.count = count]

ThreadIdle == [pc |-> "idle", work |-> NoWork]

\* parse_email_body found no code line (None).
NoCode == 0

\* The voucher mails of the model, as (code, amount, store) parsed from
\* them: a voucher, a second mail with the same code, a mail without a code
\* line.  An amount that is None or 0 is 0 here ("not amount" is true of both).
Mail ==
    << [code |-> 1, amount |-> 1, store |-> <<"a">>],
       [code |-> 1, amount |-> 2, store |-> <<"_">>],
       [code |-> NoCode, amount |-> 1, store |-> <<"a">>] >>

MsgIds == DOMAIN Mail

NoMail == [m \in MsgIds |-> "absent"]

\* job: pc is where the sweep stands, matching the unread mails it iterates,
\* pos the current one, work the uncommitted image of its connection,
\* inserted "cur.rowcount > 0", log the last outcome logged, warn whether the
\* last mark-read raised (logged as a warning).
JobWaiting ==
    [pc |-> "waiting", matching |-> <<>>, pos |-> 0, work |-> NoWork,
     inserted |-> FALSE, log |-> "none", warn |-> FALSE]

\* xl: the sheet's rows, the current row, the three counters import_excel
\* returns, the number of voucher pages fetched, the uncommitted image.
XlIdle ==
    [pc |-> "idle", rows |-> <<>>, pos |-> 0, imported |-> 0, skipped_used |-> 0,
     skipped_error |-> 0, fetched |-> 0, work |-> NoWork]

Init ==
    /\ vouchers = <<>>
    /\ lock = NoHolder
    /\ pending_amount = [u \in Users |-> NoSession]
    /\ h = [u \in Users |-> Idle]
    /\ w = [t \in {"mail", "excel"} |-> ThreadIdle]
    /\ claimCount = <<>>
    /\ usedClean = [u \in Users |-> FALSE]
    /\ engIn = <<>>
    /\ engTarget = 0
    /\ engOut = NoResult
    /\ inbox = NoMail
    /\ job = JobWaiting
    /\ xl = XlIdle

\* Mutant: "cancel" as pending_amount.clear().
SendCancelAll(u) ==
    /\ h[u].pc = "idle"
    /\ pending_amount[u] # NoSession
    /\ pending_amount' = [v \in Users |-> NoSession]
    /\ UNCHANGED <<vouchers, lock, h, w, claimCount, usedClean, engVars, ingVars>>

\* "cancel": pending_amount.pop(user_id) if present.
SendCancel(u) ==
    /\ h[u].pc = "idle"
    /\ pending_amount[u] # NoSession
    /\ pending_amount' = [pending_amount EXCEPT ![u] = NoSession]
    /\ UNCHANGED <<vouchers, lock, h, w, claimCount, usedClean, engVars, ingVars>>

\* Anything unrecognised: pending_amount.pop(user_id, None).
SendUnknown(u) ==
    /\ h[u].pc = "idle"
    /\ pending_amount[u] # NoSession
    /\ pending_amount' = [pending_amount EXCEPT ![u] = NoSession]
    /\ UNCHANGED <<vouchers, lock, h, w, claimCount, usedClean, engVars, ingVars>>

\* Mutant: STEP 1 without the "if not stores" return.
SendAmountAnyInventory(u, n) ==
    /\ h[u].pc = "idle"
    /\ pending_amount[u] = NoSession
    /\ IF n <= 0 \/ n > MAX_VOUCHER_AMOUNT
       THEN UNCHANGED pending_amount
       ELSE pending_amount' = [pending_amount EXCEPT ![u] = n]
    /\ UNCHANGED <<vouchers, lock, h, w, claimCount, usedClean, engVars, ingVars>>

\* STEP 1: a number while no session is pending.
SendAmount(u, n) ==
    /\ h[u].pc = "idle"
    /\ pending_amount[u] = NoSession
    /\ IF n <= 0 \/ n > MAX_VOUCHER_AMOUNT
       THEN UNCHANGED pending_amount
       ELSE IF DistinctStores(vouchers) = <<>>
            THEN UNCHANGED pending_amount
            ELSE pending_amount' = [pending_amount EXCEPT ![u] = n]
    /\ UNCHANGED <<vouchers, lock, h, w, claimCount, usedClean, engVars, ingVars>>

\* Mutant: STEP 2 reading pending_amount[user_id] without popping it.
SendChoiceKeepsSession(u, choice) ==
    /\ h[u].pc = "idle"
    /\ pending_amount[u] # NoSession
    /\ LET stores == DistinctStores(vouchers) IN
       IF choice < 1 \/ choice > Len(stores)
       THEN /\ pending_amount' =
                   [pending_amount EXCEPT ![u] = IF stores = <<>> THEN NoSession ELSE choice]
            /\ UNCHANGED h
       ELSE /\ UNCHANGED pending_amount
            /\ h' = [h EXCEPT ![u] = [Idle EXCEPT !.pc = "begin",
                                                  !.target = pending_amount[u],
                                                  !.store = stores[choice]]]
    /\ UNCHANGED <<vouchers, lock, w, claimCount, usedClean, engVars, ingVars>>

\* STEP 2: a number while a session is pending.
SendChoice(u, choice) ==
    /\ h[u].pc = "idle"
    /\ pending_amount[u] # NoSession
    /\ LET stores == DistinctStores(vouchers) IN
       IF choice < 1 \/ choice > Len(stores)
       THEN /\ pending_amount' =
                   [pending_amount EXCEPT ![u] = IF stores = <<>> THEN NoSession ELSE choice]
            /\ UNCHANGED h
       ELSE /\ pending_amount' = [pending_amount EXCEPT ![u] = NoSession]
            /\ h' = [h EXCEPT ![u] = [Idle EXCEPT !.pc = "begin",
                                                  !.target = pending_amount[u],
                                                  !.store = stores[choice]]]
    /\ UNCHANGED <<vouchers, lock, w, claimCount, usedClean, engVars, ingVars>>

\* Mutant: "used" without pending_amount.pop.
SendUsedKeepsSession(u) ==
    /\ h[u].pc = "idle"
    /\ LET rows == PendingIds(vouchers, u) IN
       IF rows # {}
       THEN /\ h' = [h EXCEPT ![u] = [Idle EXCEPT !.pc = "used", !.rows = rows]]
            /\ UNCHANGED usedClean
       ELSE /\ h' = [h EXCEPT ![u] = Reply("UsedNone", 0)]
            /\ usedClean' = [usedClean EXCEPT ![u] = TRUE]
    /\ UNCHANGED <<vouchers, lock, pending_amount, w, claimCount, engVars, ingVars>>

\* "used": pop the session, SELECT the user's pending ids.
SendUsed(u) ==
    /\ h[u].pc = "idle"
    /\ pending_amount' = [pending_amount EXCEPT ![u] = NoSession]
    /\ LET rows == PendingIds(vouchers, u) IN
       IF rows # {}
       THEN /\ h' = [h EXCEPT ![u] = [Idle EXCEPT !.pc = "used", !.rows = rows]]
            /\ UNCHANGED usedClean
       ELSE /\ h' = [h EXCEPT ![u] = Reply("UsedNone", 0)]
            /\ usedClean' = [usedClean EXCEPT ![u] = TRUE]
    /\ UNCHANGED <<vouchers, lock, w, claimCount, engVars, ingVars>>

\* "used": the UPDATE takes the write lock ...
UsedUpdate(u) ==
    /\ h[u].pc = "used"
    /\ LockFree
    /\ lock' = UserConn(u)
    /\ h' = [h EXCEPT ![u].pc = "used_commit", ![u].work = MarkUsed(vouchers, h[u].rows)]
    /\ UNCHANGED <<vouchers, pending_amount, w, claimCount, usedClean, engVars, ingVars>>

\* ... or raises "database is locked" after the busy timeout.
UsedTimeout(u) ==
    /\ h[u].pc = "used"
    /\ ~LockFree
    /\ h' = [h EXCEPT ![u] = Reply("Failed", 0)]
    /\ UNCHANGED <<vouchers, lock, pending_amount, w, claimCount, usedClean, engVars, ingVars>>

\* "used": con.commit() and the reply with len(ids).
UsedCommit(u) ==
    /\ h[u].pc = "used_commit"
    /\ vouchers' = Commit(vouchers, h[u].work)
    /\ lock' = NoHolder
    /\ h' = [h EXCEPT ![u] = Reply("Used", Cardinality(h[u].rows))]
    /\ usedClean' = [usedClean EXCEPT ![u] = TRUE]
    /\ UNCHANGED <<pending_amount, w, claimCount, engVars, ingVars>>

----------------------------------------------------------------------------
(* _deliver_vouchers *)

\* BEGIN IMMEDIATE takes the write lock ...
DeliverBegin(u) ==
    /\ h[u].pc = "begin"
    /\ LockFree
    /\ lock' = UserConn(u)
    /\ h' = [h EXCEPT ![u].pc = "tx", ![u].work = vouchers]
    /\ UNCHANGED <<vouchers, pending_amount, w, claimCount, usedClean, engVars, ingVars>>

\* ... or raises after the busy timeout; the handler's ROLLBACK has no effect.
DeliverBeginTimeout(u) ==
    /\ h[u].pc = "begin"
    /\ ~LockFree
    /\ h' = [h EXCEPT ![u] = Reply("Failed", 0)]
    /\ UNCHANGED <<vouchers, lock, pending_amount, w, claimCount, usedClean, engVars, ingVars>>

\* SELECT the candidates, best_combination, and the two early returns
\* (ROLLBACK, reply, return).
DeliverSelect(u) ==
    /\ h[u].pc = "tx"
    /\ \E rows \in SelectAvailable(h[u].work, h[u].store) :
        LET voucher_list == [i \in 1..Len(rows) |-> <<rows[i], h[u].work[rows[i]].amount>>]
            res == best_combination(voucher_list, h[u].target)
        IN IF rows = <<>>
           THEN /\ h' = [h EXCEPT ![u] = Reply("NoInventory", 0)]
                /\ lock' = NoHolder
                /\ vouchers' = Rollback(vouchers, h[u].work)
           ELSE IF res[1] = <<>>
           THEN /\ h' = [h EXCEPT ![u] = Reply("NoFeasibleCombination", 0)]
                /\ lock' = NoHolder
                /\ vouchers' = Rollback(vouchers, h[u].work)
           ELSE /\ h' = [h EXCEPT ![u].pc = "update", ![u].ids = res[1],
                                  ![u].count = res[2]]
                /\ UNCHANGED <<lock, vouchers>>
    /\ UNCHANGED <<pending_amount, w, claimCount, usedClean, engVars, ingVars>>

\* for vid in chosen_ids: UPDATE ... SET status='pending', assigned_to=?
DeliverUpdate(u) ==
    /\ h[u].pc = "update"
    /\ h[u].done < Len(h[u].ids)
    /\ h' = [h EXCEPT ![u].work = MarkPending(h[u].work, h[u].ids[h[u].done + 1], u),
                      ![u].done = @ + 1]
    /\ UNCHANGED <<vouchers, lock, pending_amount, w, claimCount, usedClean, engVars, ingVars>>

\* COMMIT, then the reply listing the claimed vouchers.
DeliverCommit(u) ==
    /\ h[u].pc = "update"
    /\ h[u].done = Len(h[u].ids)
    /\ vouchers' = Commit(vouchers, h[u].work)
    /\ lock' = NoHolder
    /\ claimCount' = [i \in 1..Len(claimCount) |->
                         IF \E k \in 1..Len(h[u].ids) : h[u].ids[k] = i
                         THEN claimCount[i] + 1 ELSE claimCount[i]]
    /\ usedClean' = [usedClean EXCEPT ![u] = FALSE]
    /\ h' = [h EXCEPT ![u] = Reply("Claimed", h[u].count)]
    /\ UNCHANGED <<pending_amount, w, engVars, ingVars>>

\* except Exception: ROLLBACK; raise -- a failure anywhere inside the transaction.
DeliverFail(u) ==
    /\ h[u].pc \in {"tx", "update"}
    /\ vouchers' = Rollback(vouchers, h[u].work)
    /\ lock' = NoHolder
    /\ h' = [h EXCEPT ![u] = [Reply("Failed", 0) EXCEPT !.done = h[u].done]]
    /\ UNCHANGED <<pending_amount, w, claimCount, usedClean, engVars, ingVars>>

\* The handler returns; the user can send the next message.
Return(u) ==
    /\ h[u].pc = "reply"
    /\ h' = [h EXCEPT ![u] = Idle]
    /\ UNCHANGED <<vouchers, lock, pending_amount, w, claimCount, usedClean, engVars, ingVars>>

----------------------------------------------------------------------------
(* Ingestion: the mail sweep and the Excel import, each on its own thread *)

MailCandidates ==
    {[code |-> c, amount |-> p.amount, store |-> p.store] : c \in Codes, p \in MailSubjects}

ExcelCandidates ==
    {[code |-> c, amount |-> p.amount, store |-> p.store] : c \in Codes, p \in ExcelRows}

\* Rows beyond MaxVouchers are not modelled.
Fits(db) == Len(db) <= MaxVouchers

\* INSERT OR IGNORE of one thread: takes the write lock, commit pending.
Insert(t, c) ==
    /\ w[t].pc = "idle"
    /\ LockFree
    /\ Fits(InsertOrIgnore(vouchers, c))
    /\ lock' = ThreadConn(t)
    /\ w' = [w EXCEPT ![t] = [pc |-> "staged", work |-> InsertOrIgnore(vouchers, c)]]
    /\ UNCHANGED <<vouchers, pending_amount, h, claimCount, usedClean, engVars, ingVars>>

\* con.commit() of one thread.
InsertCommit(t) ==
    /\ w[t].pc = "staged"
    /\ vouchers' = Commit(vouchers, w[t].work)
    /\ lock' = NoHolder
    /\ w' = [w EXCEPT ![t] = ThreadIdle]
    /\ claimCount' = [i \in 1..Len(w[t].work) |->
                         IF i <= Len(claimCount) THEN claimCount[i] ELSE 0]
    /\ UNCHANGED <<pending_amount, h, usedClean, engVars, ingVars>>

\* Mail sweep: a message whose code and amount parsed ("if not code or not amount").
MailInsert(c) ==
    /\ c.amount # 0
    /\ Insert("mail", c)

MailCommit == InsertCommit("mail")

\* Excel import: a row with a code and an amount ("if amount is None").
ExcelInsert(c) == Insert("excel", c)

ExcelCommit == InsertCommit("excel")

----------------------------------------------------------------------------
(* _ingest_emails_sync under ingest_emails_job, message by message *)

\* inbox.Items.Restrict("[Unread] = True"), in mailbox order.
Unread(ib) ==
    LET ids == {m \in MsgIds : ib[m] = "unread"}
        n == Cardinality(ids)
    IN CHOOSE r \in [1..n -> ids] : \A i, j \in 1..n : i < j => r[i] < r[j]

\* "if not code or not amount" is false.
Parsed(m) == Mail[m].code # NoCode /\ Mail[m].amount # 0

\* Mutant: the flag is set but never saved.
MarkReadNotSaved(ib, m, ok) == ib

\* msg.UnRead = False; msg.Save() -- ok is whether Outlook accepted it; the
\* exception otherwise is logged and swallowed.
MarkRead(ib, m, ok) == IF ok THEN [ib EXCEPT ![m] = "read"] ELSE ib

\* Mutant: the exception of the sweep escapes the job (no try/except).
JobAfterFailureDead == [JobWaiting EXCEPT !.pc = "dead", !.log = "failed"]

\* ingest_emails_job's "except Exception": logged, the repeating job stays.
JobAfterFailure == [JobWaiting EXCEPT !.log = "failed"]

\* A voucher mail arrives in the inbox.
MailArrive(m) ==
    /\ inbox[m] = "absent"
    /\ inbox' = [inbox EXCEPT ![m] = "unread"]
    /\ UNCHANGED <<storeVars, engVars, job, xl>>

\* The job fires: the unread mails are listed.
SweepStart ==
    /\ job.pc = "waiting"
    /\ job' = [JobWaiting EXCEPT !.pc = "running", !.matching = Unread(inbox), !.pos = 1]
    /\ UNCHANGED <<storeVars, engVars, inbox, xl>>

\* A mail whose code or amount did not parse: marked read, next mail.
SweepParseFailure(ok) ==
    /\ job.pc = "running"
    /\ job.pos <= Len(job.matching)
    /\ ~Parsed(job.matching[job.pos])
    /\ inbox' = MarkRead(inbox, job.matching[job.pos], ok)
    /\ job' = [job EXCEPT !.pos = @ + 1, !.log = "parse_failure", !.warn = ~ok]
    /\ UNCHANGED <<storeVars, engVars, xl>>

\* Mutant: the mail is marked read before the INSERT is committed.
SweepInsertMarksFirst ==
    /\ job.pc = "running"
    /\ job.pos <= Len(job.matching)
    /\ Parsed(job.matching[job.pos])
    /\ LockFree
    /\ LET c == Mail[job.matching[job.pos]] IN
       /\ Fits(InsertOrIgnore(vouchers, c))
       /\ job' = [job EXCEPT !.pc = "staged", !.work = InsertOrIgnore(vouchers, c)]
    /\ lock' = ThreadConn("mail")
    /\ inbox' = MarkRead(inbox, job.matching[job.pos], TRUE)
    /\ UNCHANGED <<vouchers, pending_amount, h, w, claimCount, usedClean, engVars, xl>>

\* INSERT OR IGNORE of a parsed mail: takes the write lock.
SweepInsert ==
    /\ job.pc = "running"
    /\ job.pos <= Len(job.matching)
    /\ Parsed(job.matching[job.pos])
    /\ LockFree
    /\ LET c == Mail[job.matching[job.pos]] IN
       /\ Fits(InsertOrIgnore(vouchers, c))
       /\ job' = [job EXCEPT !.pc = "staged", !.work = InsertOrIgnore(vouchers, c)]
    /\ lock' = ThreadConn("mail")
    /\ UNCHANGED <<vouchers, pending_amount, h, w, claimCount, usedClean, engVars, inbox, xl>>

\* con.commit(); inserted = cur.rowcount > 0.
SweepCommit ==
    /\ job.pc = "staged"
    /\ vouchers' = Commit(vouchers, job.work)
    /\ lock' = NoHolder
    /\ claimCount' = [i \in 1..Len(job.work) |->
                         IF i <= Len(claimCount) THEN claimCount[i] ELSE 0]
    /\ job' = [job EXCEPT !.pc = "mark", !.work = NoWork,
                          !.inserted = Len(job.work) > Len(vouchers)]
    /\ UNCHANGED <<pending_amount, h, w, usedClean, engVars, inbox, xl>>

\* "Always mark read", then the log line (stored or duplicate), next mail.
SweepMark(ok) ==
    /\ job.pc = "mark"
    /\ inbox' = MarkRead(inbox, job.matching[job.pos], ok)
    /\ job' = [job EXCEPT !.pc = "running", !.pos = @ + 1, !.inserted = FALSE,
                          !.log = IF job.inserted THEN "stored" ELSE "duplicate",
                          !.warn = ~ok]
    /\ UNCHANGED <<storeVars, engVars, xl>>

\* The loop is over: con.close(), the job waits for the next interval.
SweepEnd ==
    /\ job.pc = "running"
    /\ job.pos > Len(job.matching)
    /\ job' = [JobWaiting EXCEPT !.log = "done"]
    /\ UNCHANGED <<storeVars, engVars, inbox, xl>>

\* Anything raises (Outlook not open, a COM error, "database is locked" at
\* the INSERT): finally con.close() drops what is uncommitted, the job's
\* except logs it.
SweepFail ==
    /\ job.pc \in {"waiting", "running", "staged", "mark"}
    /\ job' = JobAfterFailure
    /\ IF job.pc = "staged"
       THEN /\ vouchers' = Rollback(vouchers, job.work)
            /\ lock' = NoHolder
       ELSE UNCHANGED <<vouchers, lock>>
    /\ UNCHANGED <<pending_amount, h, w, claimCount, usedClean, engVars, inbox, xl>>

----------------------------------------------------------------------------
(* import_excel, row by row *)

\* The rows of the model: used is the status keyword test, link the Pluxee
\* link test, amt_ok whether int(float(cell)) succeeded, code what the
\* fetched page yields (NoCode: the fetch raised or no digits were found).
SheetRows ==
    { [used |-> TRUE,  link |-> TRUE,  amt_ok |-> TRUE,  amount |-> 1, code |-> 2, store |-> <<"a">>],
      [used |-> FALSE, link |-> TRUE,  amt_ok |-> TRUE,  amount |-> 1, code |-> 1, store |-> NULL],
      [used |-> FALSE, link |-> TRUE,  amt_ok |-> TRUE,  amount |-> 0, code |-> 2, store |-> <<"a">>],
      [used |-> FALSE, link |-> TRUE,  amt_ok |-> TRUE,  amount |-> 1, code |-> NoCode, store |-> <<"a">>],
      [used |-> FALSE, link |-> TRUE,  amt_ok |-> FALSE, amount |-> 0, code |-> 2, store |-> <<"a">>],
      [used |-> FALSE, link |-> FALSE, amt_ok |-> TRUE,  amount |-> 1, code |-> 2, store |-> <<"a">>] }

Sheets == UNION { [1..n -> SheetRows] : n \in 1..MaxRows }

Row == xl.rows[xl.pos]

InRow == xl.pc = "running" /\ xl.pos <= Len(xl.rows)

\* handle_excel_upload hands a sheet to import_excel.
ImportStart(sheet) ==
    /\ xl.pc = "idle"
    /\ xl' = [XlIdle EXCEPT !.pc = "running", !.rows = sheet, !.pos = 1]
    /\ UNCHANGED <<storeVars, engVars, inbox, job>>

\* Status matches a used keyword: skipped_used += 1; continue.
ImportRowUsed ==
    /\ InRow /\ Row.used
    /\ xl' = [xl EXCEPT !.pos = @ + 1, !.skipped_used = @ + 1]
    /\ UNCHANGED <<storeVars, engVars, inbox, job>>

\* No Pluxee link in the row: skipped_error += 1; continue.
ImportRowNoLink ==
    /\ InRow /\ ~Row.used /\ ~Row.link
    /\ xl' = [xl EXCEPT !.pos = @ + 1, !.skipped_error = @ + 1]
    /\ UNCHANGED <<storeVars, engVars, inbox, job>>

\* The page is fetched; no code from it, or no amount in the row:
\* skipped_error += 1; continue.
ImportRowNoCodeOrAmount ==
    /\ InRow /\ ~Row.used /\ Row.link
    /\ Row.code = NoCode \/ ~Row.amt_ok
    /\ xl' = [xl EXCEPT !.pos = @ + 1, !.skipped_error = @ + 1, !.fetched = @ + 1]
    /\ UNCHANGED <<storeVars, engVars, inbox, job>>

\* Mutant: the status test dropped, a used row is imported like any other.
ImportableAnyStatus(r) == r.link /\ r.code # NoCode /\ r.amt_ok

\* The row reaches the INSERT.
Importable(r) == ~r.used /\ r.link /\ r.code # NoCode /\ r.amt_ok

\* The page is fetched, then INSERT OR IGNORE: takes the write lock ...
ImportInsert ==
    /\ InRow /\ Importable(Row)
    /\ LockFree
    /\ LET c == [code |-> Row.code, amount |-> Row.amount, store |-> Row.store] IN
       /\ Fits(InsertOrIgnore(vouchers, c))
       /\ xl' = [xl EXCEPT !.pc = "staged", !.fetched = @ + 1,
                           !.work = InsertOrIgnore(vouchers, c)]
    /\ lock' = ThreadConn("excel")
    /\ UNCHANGED <<vouchers, pending_amount, h, w, claimCount, usedClean, engVars, inbox, job>>

\* ... or raises "database is locked": the row's except counts an error.
ImportInsertTimeout ==
    /\ InRow /\ Importable(Row)
    /\ ~LockFree
    /\ xl' = [xl EXCEPT !.pos = @ + 1, !.skipped_error = @ + 1, !.fetched = @ + 1]
    /\ UNCHANGED <<storeVars, engVars, inbox, job>>

\* con.commit(); rowcount > 0: imported += 1, else (duplicate code)
\* skipped_error += 1.
ImportCommit ==
    /\ xl.pc = "staged"
    /\ vouchers' = Commit(vouchers, xl.work)
    /\ lock' = NoHolder
    /\ claimCount' = [i \in 1..Len(xl.work) |->
                         IF i <= Len(claimCount) THEN claimCount[i] ELSE 0]
    /\ xl' = IF Len(xl.work) > Len(vouchers)
             THEN [xl EXCEPT !.pc = "running", !.pos = @ + 1, !.work = NoWork,
                             !.imported = @ + 1]
             ELSE [xl EXCEPT !.pc = "running", !.pos = @ + 1, !.work = NoWork,
                             !.skipped_error = @ + 1]
    /\ UNCHANGED <<pending_amount, h, w, usedClean, engVars, inbox, job>>

\* return imported, skipped_used, skipped_error
ImportEnd ==
    /\ xl.pc = "running"
    /\ xl.pos > Len(xl.rows)
    /\ xl' = [xl EXCEPT !.pc = "done"]
    /\ UNCHANGED <<storeVars, engVars, inbox, job>>

\* handle_excel_upload has replied with the three counts.
ImportReturn ==
    /\ xl.pc = "done"
    /\ xl' = XlIdle
    /\ UNCHANGED <<storeVars, engVars, inbox, job>>

IngInit ==
    /\ vouchers = <<>>
    /\ lock = NoHolder
    /\ pending_amount = [u \in Users |-> NoSession]
    /\ h = [u \in Users |-> Idle]
    /\ w = [t \in {"mail", "excel"} |-> ThreadIdle]
    /\ claimCount = <<>>
    /\ usedClean = [u \in Users |-> FALSE]
    /\ engIn = <<>>
    /\ engTarget = 0
    /\ engOut = NoResult
    /\ inbox = NoMail
    /\ job = JobWaiting
    /\ xl = XlIdle

IngNext ==
    \/ \E m \in MsgIds : MailArrive(m)
    \/ SweepStart
    \/ \E ok \in BOOLEAN : SweepParseFailure(ok)
    \/ SweepInsert
    \/ SweepCommit
    \/ \E ok \in BOOLEAN : SweepMark(ok)
    \/ SweepEnd
    \/ SweepFail
    \/ \E sheet \in Sheets : ImportStart(sheet)
    \/ ImportRowUsed
    \/ ImportRowNoLink
    \/ ImportRowNoCodeOrAmount
    \/ ImportInsert
    \/ ImportInsertTimeout
    \/ ImportCommit
    \/ ImportEnd
    \/ ImportReturn

\* The two ingestion adapters, running side by side on the same database.
SpecIngest == IngInit /\ [][IngNext]_vars

----------------------------------------------------------------------------

Next ==
    \/ \E u \in Users : SendCancel(u)
    \/ \E u \in Users : SendUnknown(u)
    \/ \E u \in Users, n \in Numbers : SendAmount(u, n)
    \/ \E u \in Users, n \in Numbers : SendChoice(u, n)
    \/ \E u \in Users : SendUsed(u)
    \/ \E u \in Users : UsedUpdate(u)
    \/ \E u \in Users : UsedTimeout(u)
    \/ \E u \in Users : UsedCommit(u)
    \/ \E u \in Users : DeliverBegin(u)
    \/ \E u \in Users : DeliverBeginTimeout(u)
    \/ \E u \in Users : DeliverSelect(u)
    \/ \E u \in Users : DeliverUpdate(u)
    \/ \E u \in Users : DeliverCommit(u)
    \/ \E u \in Users : DeliverFail(u)
    \/ \E u \in Users : Return(u)
    \/ \E c \in MailCandidates : MailInsert(c)
    \/ MailCommit
    \/ \E c \in ExcelCandidates : ExcelInsert(c)
    \/ ExcelCommit

Spec == Init /\ [][Next]_vars

----------------------------------------------------------------------------
(* Harness of the combination algorithm: inputs over the amounts the table *)
(* can hold (ids are the positions), one action applying the function.     *)

EngAmounts == (-1)..MaxAmt

EngLists == UNION { [1..n -> EngAmounts] : n \in 0..MaxLen }

EngList(f) == [i \in 1..Len(f) |-> <<i, f[i]>>]

\* A voucher list with the amounts of real vouchers (with target 230).
EngExample == << <<1, 100>>, <<2, 150>>, <<3, 80>> >>

EngInit ==
    /\ vouchers = <<>>
    /\ lock = NoHolder
    /\ pending_amount = [u \in Users |-> NoSession]
    /\ h = [u \in Users |-> Idle]
    /\ w = [t \in {"mail", "excel"} |-> ThreadIdle]
    /\ claimCount = <<>>
    /\ usedClean = [u \in Users |-> FALSE]
    /\ engIn \in {EngList(f) : f \in EngLists} \cup {EngExample}
    /\ engTarget \in (0..MaxT) \cup {230}
    /\ engOut = NoResult
    /\ inbox = NoMail
    /\ job = JobWaiting
    /\ xl = XlIdle

EngRun ==
    /\ engOut = NoResult
    /\ engOut' = best_combination(engIn, engTarget)
    /\ UNCHANGED <<engIn, engTarget>>
    /\ UNCHANGED storeVars
    /\ UNCHANGED ingVars

EngNext == EngRun

SpecEngine == EngInit /\ [][EngNext]_vars

----------------------------------------------------------------------------
(* Properties *)

InTx(u) == h[u].pc \in {"tx", "update"}

IdSet(ids) == {ids[k] : k \in 1..Len(ids)}

RECURSIVE SumOver(_, _)
\* Sum of f[i] over the finite set S.
SumOver(f, S) ==
    IF S = {} THEN 0
    ELSE LET x == CHOOSE y \in S : TRUE IN f[x] + SumOver(f, S \ {x})

\* C1: concurrent allocation calls with overlapping candidates never both
\* move the same voucher to pending -- every voucher id is claimed by at most
\* one committed allocation in its lifetime.
C1_NoDoubleClaim == \A i \in 1..Len(claimCount) : claimCount[i] <= 1

\* Two calls in flight at once, the second one's filter matching a voucher
\* the first has just claimed.
C1_Witness ==
    \E u1, u2 \in Users :
        /\ u1 # u2
        /\ h[u1].pc = "reply" /\ h[u1].outcome = "Claimed"
        /\ h[u2].pc = "begin"
        /\ \E i \in 1..Len(vouchers) :
               /\ vouchers[i].status = "pending" /\ vouchers[i].assigned_to = u1
               /\ claimCount[i] = 1
               /\ Like(vouchers[i].store, h[u2].store)

\* C2: an allocation call that fails (lock timeout at BEGIN, or any failure
\* inside the transaction) leaves the committed table as it was, and while a
\* transaction is open none of its partial updates shows in the committed
\* table.
C2_FailedAllocationChangesNothing ==
    [][\A u \in Users :
        /\ (InTx(u) /\ h'[u].outcome # "Claimed") => vouchers' = vouchers
        /\ InTx(u) => \A i \in IdSet(h[u].ids) : vouchers[i].status = "available"
        /\ (h[u].pc = "begin" /\ h'[u].outcome = "Failed") => vouchers' = vouchers
      ]_vars

\* A call that failed after it had updated one of two chosen rows; the
\* committed table shows no claim.
C2_Witness ==
    \E u \in Users :
        /\ h[u].pc = "reply" /\ h[u].outcome = "Failed" /\ h[u].done >= 1
        /\ Len(vouchers) >= 2
        /\ \A i \in 1..Len(vouchers) : vouchers[i].status = "available"

\* C4: no two stored vouchers share a code.
C4_UniqueCodes ==
    \A i, j \in 1..Len(vouchers) : i # j => vouchers[i].code # vouchers[j].code

\* The Excel import has executed an INSERT for a code the mail sweep stored:
\* its image of the table is the table.
C4_Witness ==
    /\ w["excel"].pc = "staged"
    /\ w["excel"].work = vouchers
    /\ \E i \in 1..Len(vouchers) : vouchers[i].store = <<"_">>

\* C5: assigned_to is set exactly for the pending and the used vouchers.
C5_AssignedIffClaimed ==
    \A i \in 1..Len(vouchers) :
        (vouchers[i].assigned_to # NoUser) <=> (vouchers[i].status \in {"pending", "used"})

C5_Witness ==
    \E i, j \in 1..Len(vouchers) :
        /\ vouchers[i].status = "used"
        /\ vouchers[j].status = "pending"

\* C6: a voucher's status only moves available -> pending (by a committing
\* allocation, which sets assigned_to) and pending -> used (by the "used" of
\* its owner); nothing else changes status or assigned_to, and no row goes
\* away.
C6_StatusLifecycle ==
    [][/\ Len(vouchers') >= Len(vouchers)
       /\ \A i \in 1..Len(vouchers) :
            LET a == vouchers[i]
                b == vouchers'[i]
            IN /\ b.code = a.code
               /\ \/ b.status = a.status /\ b.assigned_to = a.assigned_to
                  \/ /\ a.status = "available" /\ b.status = "pending"
                     /\ a.assigned_to = NoUser
                     /\ \E u \in Users :
                            /\ b.assigned_to = u
                            /\ h[u].pc = "update" /\ h'[u].outcome = "Claimed"
                  \/ /\ a.status = "pending" /\ b.status = "used"
                     /\ b.assigned_to = a.assigned_to
                     /\ h[a.assigned_to].pc = "used_commit"
      ]_vars

C6_Witness ==
    \E i \in 1..Len(vouchers) : vouchers[i].status = "used" /\ claimCount[i] = 1

\* C7: allocate returns NoInventory exactly when no available voucher matches
\* the store filter, NoFeasibleCombination exactly when some match and every
\* matching amount exceeds the target, and goes on to claim in every other
\* case; the first two change no voucher.
C7_OutcomeClassification ==
    [][\A u \in Users :
        (h[u].pc = "tx" /\ h'[u].pc # "tx" /\ h'[u].outcome # "Failed") =>
            LET m == Matching(vouchers, h[u].store) IN
            /\ (h'[u].outcome = "NoInventory") <=> (m = {})
            /\ (h'[u].outcome = "NoFeasibleCombination") <=>
                   (m # {} /\ \A i \in m : vouchers[i].amount > h[u].target)
            /\ (h'[u].pc = "update") <=>
                   (m # {} /\ \E i \in m : vouchers[i].amount <= h[u].target)
            /\ (h'[u].outcome \in {"NoInventory", "NoFeasibleCombination"})
                   => vouchers' = vouchers
      ]_vars

\* The store string occurs in the label, character for character.
Contains(store, substr) ==
    /\ store # NULL
    /\ \E i \in 1..(Len(store) - Len(substr) + 1) :
           \A j \in 1..Len(substr) : substr[j] = store[i + j - 1]

\* C8: when allocate claims, the vouchers moved to pending for the requester
\* are exactly the chosen ids, each was available with a store label
\* containing the requested store string, their amounts sum to at most the
\* target, and every other voucher is unchanged.
C8_ClaimedExactlyChosen ==
    [][\A u \in Users :
        (h[u].pc = "update" /\ h'[u].outcome = "Claimed") =>
            /\ Len(vouchers') = Len(vouchers)
            /\ \A i \in 1..Len(vouchers) :
                 IF i \in IdSet(h[u].ids)
                 THEN /\ vouchers'[i] = [vouchers[i] EXCEPT !.status = "pending",
                                                            !.assigned_to = u]
                      /\ vouchers[i].status = "available"
                      /\ Contains(vouchers[i].store, h[u].store)
                 ELSE vouchers'[i] = vouchers[i]
            /\ SumOver([i \in 1..Len(vouchers) |-> vouchers[i].amount], IdSet(h[u].ids))
                   <= h[u].target
      ]_vars

\* C9: a "used" of a requester who has completed a "used" with no allocation
\* of theirs committed since changes no voucher and reports zero.
C9_MarkUsedIdempotent ==
    [][\A u \in Users :
        (usedClean[u] /\ h[u].pc = "idle" /\ h'[u].pc \in {"used", "reply"}) =>
            /\ h'[u].pc = "reply" /\ h'[u].outcome = "UsedNone" /\ h'[u].count = 0
            /\ vouchers' = vouchers
      ]_vars

\* The second "used" has replied zero; the first had marked a voucher.
C9_Witness ==
    \E u \in Users :
        /\ h[u].pc = "reply" /\ h[u].outcome = "UsedNone" /\ usedClean[u]
        /\ \E i \in 1..Len(vouchers) :
               vouchers[i].status = "used" /\ vouchers[i].assigned_to = u

\* C10: "used" of requester u moves exactly the vouchers pending for u to
\* used, reports how many, and changes no other voucher.
C10_MarkUsedFrame ==
    [][\A u \in Users :
        (h[u].pc = "used_commit" /\ h'[u].pc = "reply") =>
            LET mine == {i \in 1..Len(vouchers) :
                            vouchers[i].status = "pending" /\ vouchers[i].assigned_to = u}
            IN /\ Len(vouchers') = Len(vouchers)
               /\ \A i \in 1..Len(vouchers) :
                    IF i \in mine
                    THEN vouchers'[i] = [vouchers[i] EXCEPT !.status = "used"]
                    ELSE vouchers'[i] = vouchers[i]
               /\ h'[u].count = Cardinality(mine)
               /\ mine # {}
      ]_vars

\* A "used" has just marked u's voucher while another requester's voucher
\* stays pending.
C10_Witness ==
    \E u \in Users :
        /\ h[u].pc = "reply" /\ h[u].outcome = "Used" /\ h[u].count >= 1
        /\ \E i, j \in 1..Len(vouchers) :
               /\ vouchers[i].status = "used" /\ vouchers[i].assigned_to = u
               /\ vouchers[j].status = "pending" /\ vouchers[j].assigned_to # u

----------------------------------------------------------------------------
(* Properties of the negotiation (pending_amount and the store menu) *)

\* The store labels with available inventory, from the table itself.
AvailableStores(db) ==
    {db[i].store : i \in {k \in 1..Len(db) :
                             db[k].status = "available" /\ db[k].store # NULL}}

\* The 1-based place of label s in the sorted menu of the table.
StoreRank(db, s) == Cardinality({t \in AvailableStores(db) : StrLess(t, s)}) + 1

InAllocation(r) ==
    \/ r.pc \in {"begin", "tx", "update"}
    \/ r.pc = "reply" /\ r.outcome \in
           {"Claimed", "NoInventory", "NoFeasibleCombination", "Failed"}

\* C11: a store number c within the menu of the table as it is when the
\* number arrives starts exactly one allocation, for the session's target and
\* the c-th store of that menu; the session is gone from then on, whatever
\* the allocation's outcome.
C11_ChoiceInvokesAllocateOnce ==
    [][\A u \in Users :
        /\ \A c \in Numbers :
             (/\ SendChoice(u, c)
              /\ 1 <= c /\ c <= Cardinality(AvailableStores(vouchers))) =>
                 /\ h'[u].pc = "begin"
                 /\ h'[u].target = pending_amount[u]
                 /\ h'[u].store \in AvailableStores(vouchers)
                 /\ StoreRank(vouchers, h'[u].store) = c
                 /\ vouchers' = vouchers
        /\ (h[u].pc # "begin" /\ h'[u].pc = "begin") => h[u].pc = "idle"
        /\ InAllocation(h'[u]) => pending_amount'[u] = NoSession
      ]_vars

\* An allocation has begun for the second store of a two-store menu.
C11_Witness ==
    \E u \in Users :
        /\ h[u].pc = "begin" /\ h[u].target = MaxNumber
        /\ Cardinality(AvailableStores(vouchers)) = 2
        /\ StoreRank(vouchers, h[u].store) = 2

\* What the Idle transition does with amount a: the session it leaves.
IdleAmountSession(db, a) ==
    IF 1 <= a /\ a <= MAX_VOUCHER_AMOUNT /\ AvailableStores(db) # {}
    THEN a ELSE NoSession

\* C12: a number c outside the current menu is handled as the Idle
\* transition handles the amount c: no allocation, no voucher changes, the
\* old target is dropped, and the session left is the one an Idle requester
\* sending c would get.
C12_OutOfRangeIsNewAmount ==
    [][\A u \in Users : \A c \in Numbers :
        (/\ SendChoice(u, c)
         /\ (c < 1 \/ c > Cardinality(AvailableStores(vouchers)))) =>
            /\ h' = h
            /\ vouchers' = vouchers
            /\ pending_amount'[u] = IdleAmountSession(vouchers, c)
      ]_vars

\* C13: every session's target, and every allocation's target, is within
\* 1..MAX_VOUCHER_AMOUNT.
C13_SessionTargetInRange ==
    \A u \in Users :
        /\ pending_amount[u] # NoSession =>
               (1 <= pending_amount[u] /\ pending_amount[u] <= MAX_VOUCHER_AMOUNT)
        /\ h[u].pc \in {"begin", "tx", "update"} =>
               (1 <= h[u].target /\ h[u].target <= MAX_VOUCHER_AMOUNT)

\* C14: an amount from an Idle requester creates the session for it exactly
\* when it is within 1..MAX_VOUCHER_AMOUNT and some store has available
\* inventory; no voucher changes and no allocation starts.
C14_IdleAmountCreatesSession ==
    [][\A u \in Users : \A a \in Numbers :
        SendAmount(u, a) =>
            /\ (pending_amount'[u] # NoSession) <=>
                   (1 <= a /\ a <= MAX_VOUCHER_AMOUNT /\ AvailableStores(vouchers) # {})
            /\ pending_amount'[u] # NoSession => pending_amount'[u] = a
            /\ vouchers' = vouchers
            /\ h' = h
      ]_vars

\* A session exists while its requester's menu has both stores, and the
\* other requester, who asked when nothing was available, has none.
C14_Witness ==
    \E u, v \in Users :
        /\ u # v
        /\ pending_amount[u] = 1 /\ h[u].pc = "idle"
        /\ pending_amount[v] = NoSession /\ h[v].pc = "idle"
        /\ Cardinality(AvailableStores(vouchers)) = 2

\* C15: cancel, "used" and an unrecognised input leave the sender without a
\* session; cancel and unrecognised input change no voucher and start no
\* allocation; the session stays away while "used" runs.
C15_CommandsClearSession ==
    [][\A u \in Users :
        /\ (SendCancel(u) \/ SendUnknown(u)) =>
               /\ pending_amount'[u] = NoSession
               /\ vouchers' = vouchers
               /\ h' = h
        /\ SendUsed(u) => pending_amount'[u] = NoSession
        /\ h'[u].pc \in {"used", "used_commit"} => pending_amount'[u] = NoSession
        /\ (h'[u].pc = "reply" /\ h'[u].outcome \in {"Used", "UsedNone"}) =>
               pending_amount'[u] = NoSession
      ]_vars

\* "used" is running for a requester who has no session while the other
\* requester keeps theirs.
C15_Witness ==
    \E u, v \in Users :
        /\ h[u].pc = "used" /\ pending_amount[u] = NoSession
        /\ pending_amount[v] # NoSession

----------------------------------------------------------------------------
(* Properties of ingestion *)

\* C16: in the Excel import a row whose code is already stored is counted
\* neither as an error nor as imported, and in the mail sweep a mail whose
\* code is already stored is logged as a duplicate; neither adds a row.
C16_DuplicateNotAnError ==
    [][/\ (xl.pc = "staged" /\ xl'.pc = "running" /\ HasCode(vouchers, Row.code)) =>
            /\ xl'.skipped_error = xl.skipped_error
            /\ xl'.imported = xl.imported
            /\ vouchers' = vouchers
       /\ (job.pc = "mark" /\ job'.pc = "running" /\ ~job.inserted) =>
            /\ job'.log = "duplicate"
            /\ vouchers' = vouchers
      ]_vars

\* Voucher v carries the fields of candidate c.
SameFields(v, c) == v.code = c.code /\ v.amount = c.amount /\ v.store = c.store

\* C17: a row with a used status adds one to skipped_used and nothing to the
\* other counters, fetches no page, inserts nothing; every stored voucher
\* comes from a mail or from a row that is not used.
C17_UsedRowsSkipped ==
    [][/\ (InRow /\ Row.used /\ xl' # xl) =>
            /\ xl'.skipped_used = xl.skipped_used + 1
            /\ xl'.skipped_error = xl.skipped_error
            /\ xl'.imported = xl.imported
            /\ xl'.fetched = xl.fetched
            /\ xl'.pc = "running" /\ xl'.pos = xl.pos + 1
            /\ vouchers' = vouchers
            /\ lock' = lock
       /\ \A i \in 1..Len(vouchers') :
            \/ \E m \in MsgIds : SameFields(vouchers'[i], Mail[m])
            \/ \E r \in SheetRows : ~r.used /\ SameFields(vouchers'[i], r)
      ]_vars

\* An import has ended: the used row was skipped, the other row imported.
C17_Witness ==
    /\ xl.pc = "done"
    /\ xl.skipped_used = 1 /\ xl.imported = 1 /\ xl.skipped_error = 0
    /\ xl.fetched = 1

\* C18: every stored voucher has amount > 0.
C18_AmountsPositive ==
    \A i \in 1..Len(vouchers) : vouchers[i].amount > 0

\* The sweep has just finished with the mail at job.pos.
Processed(m) ==
    /\ job.pc \in {"running", "mark"}
    /\ job.pos <= Len(job.matching) /\ job.matching[job.pos] = m
    /\ job'.pc = "running" /\ job'.pos = job.pos + 1

C20_SweepFailureContained ==
    [][/\ (job' # job /\ job'.log = "failed") =>
            /\ job'.pc = "waiting"
            /\ vouchers' = vouchers
            /\ lock' # ThreadConn("mail")
       /\ job'.pc \in {"waiting", "running", "staged", "mark"}
       /\ Len(vouchers') >= Len(vouchers)
       /\ \A i \in 1..Len(vouchers) : vouchers'[i] = vouchers[i]
      ]_vars

\* A sweep failed after it had stored a voucher and before it marked the
\* mail: the voucher is kept, the job waits.
C20_Witness ==
    /\ job.pc = "waiting" /\ job.log = "failed"
    /\ Len(vouchers) = 1 /\ inbox[1] = "unread"
    /\ lock = NoHolder

----------------------------------------------------------------------------
(* Properties of the candidate order *)

\* The matching available ids by amount descending, equal amounts in
\* insertion (id) order.
StableOrder(db, substr) ==
    LET ids == {i \in 1..Len(db) : db[i].status = "available" /\ Like(db[i].store, substr)}
        n == Cardinality(ids)
    IN CHOOSE r \in [1..n -> ids] :
           \A i, j \in 1..n : i < j =>
               \/ db[r[i]].amount > db[r[j]].amount
               \/ db[r[i]].amount = db[r[j]].amount /\ r[i] < r[j]

\* C21: the allocation reads its candidates by amount descending with equal
\* amounts in insertion order, so the ids it chooses are those the
\* combination algorithm yields for that one sequence.
C21_CandidateOrderStable ==
    [][\A u \in Users :
        (h[u].pc = "tx" /\ h'[u].pc = "update") =>
            LET rows == StableOrder(h[u].work, h[u].store)
                voucher_list == [i \in 1..Len(rows) |->
                                    <<rows[i], h[u].work[rows[i]].amount>>]
            IN h'[u].ids = best_combination(voucher_list, h[u].target)[1]
      ]_vars

----------------------------------------------------------------------------
(* Properties of the stored rows and of isolation *)

\* C25: no step changes the code, amount or store of a stored voucher or
\* removes one; an INSERT whose code is already stored leaves the table as
\* it was.
C25_FieldsImmutable ==
    [][/\ Len(vouchers') >= Len(vouchers)
       /\ \A i \in 1..Len(vouchers) :
            /\ vouchers'[i].code = vouchers[i].code
            /\ vouchers'[i].amount = vouchers[i].amount
            /\ vouchers'[i].store = vouchers[i].store
       /\ \A t \in {"mail", "excel"} :
            (w[t].pc = "staged" /\ w'[t].pc = "idle" /\ Len(vouchers') = Len(vouchers))
                => vouchers' = vouchers
      ]_vars

\* An INSERT for a stored code is staged while that voucher is claimed.
C25_Witness ==
    \E t \in {"mail", "excel"} :
        /\ w[t].pc = "staged" /\ w[t].work = vouchers
        /\ \E i \in 1..Len(vouchers) : vouchers[i].status \in {"pending", "used"}

\* C26: a parsed mail becomes read only in the step after its INSERT was
\* committed, its code then being stored; a sweep that fails between the
\* commit and the mark leaves the mail unread with its voucher stored; every
\* unread mail is listed by the next sweep; no code is ever stored twice.
C26_MarkAfterCommit ==
    [][/\ \A m \in MsgIds :
            (inbox[m] = "unread" /\ inbox'[m] = "read" /\ Parsed(m)) =>
                /\ job.pc = "mark" /\ job.matching[job.pos] = m
                /\ HasCode(vouchers, Mail[m].code)
       /\ (job.pc = "mark" /\ job'.log = "failed") =>
            /\ inbox'[job.matching[job.pos]] = "unread"
            /\ HasCode(vouchers', Mail[job.matching[job.pos]].code)
       /\ (job.pc = "waiting" /\ job'.pc = "running") =>
            \A m \in MsgIds : inbox[m] = "unread" =>
                \E k \in 1..Len(job'.matching) : job'.matching[k] = m
       /\ \A i, j \in 1..Len(vouchers') :
            i # j => vouchers'[i].code # vouchers'[j].code
      ]_vars

\* The first mail has been processed twice (stored, then, still unread, found
\* a duplicate) and is read; the store holds its one voucher.
C26_Witness ==
    /\ inbox[1] = "read" /\ inbox[2] = "absent"
    /\ job.pc = "running" /\ job.log = "duplicate" /\ ~job.warn
    /\ Len(vouchers) = 1 /\ SameFields(vouchers[1], Mail[1])

\* C27: a voucher without a store label (store IS NULL) stays available and
\* unassigned, no menu offers a missing label, no allocation asks for one or
\* chooses such a voucher.
C27_NoStoreNeverClaimed ==
    /\ \A i \in 1..Len(vouchers) :
           vouchers[i].store = NULL =>
               (vouchers[i].status = "available" /\ vouchers[i].assigned_to = NoUser)
    /\ \A k \in 1..Len(DistinctStores(vouchers)) : DistinctStores(vouchers)[k] # NULL
    /\ \A u \in Users :
           /\ h[u].pc \in {"begin", "tx", "update"} => h[u].store # NULL
           /\ h[u].pc = "update" =>
                  \A k \in 1..Len(h[u].ids) : h[u].work[h[u].ids[k]].store # NULL

\* A voucher without a store label is still available while the other
\* voucher has been claimed and used.
C27_Witness ==
    \E i, j \in 1..Len(vouchers) :
        /\ vouchers[i].store = NULL /\ vouchers[i].status = "available"
        /\ vouchers[j].status = "used"

\* A step of requester u's handler call.
UserStep(u) ==
    \/ SendCancel(u) \/ SendUnknown(u) \/ SendUsed(u)
    \/ \E n \in Numbers : SendAmount(u, n) \/ SendChoice(u, n)
    \/ UsedUpdate(u) \/ UsedTimeout(u) \/ UsedCommit(u)
    \/ DeliverBegin(u) \/ DeliverBeginTimeout(u) \/ DeliverSelect(u)
    \/ DeliverUpdate(u) \/ DeliverCommit(u) \/ DeliverFail(u) \/ Return(u)

\* A step of the mail sweep or of the Excel import.
IngestStep ==
    \/ \E c \in MailCandidates : MailInsert(c)
    \/ \E c \in ExcelCandidates : ExcelInsert(c)
    \/ MailCommit \/ ExcelCommit

\* C28: a step of requester a's call leaves every other requester's session
\* and every voucher pending or used for another requester as they were;
\* ingestion leaves every session as it was.
C28_RequestersIsolated ==
    [][/\ \A a \in Users :
            UserStep(a) =>
                \A b \in Users \ {a} :
                    /\ pending_amount'[b] = pending_amount[b]
                    /\ \A i \in 1..Len(vouchers) :
                           vouchers[i].assigned_to = b => vouchers'[i] = vouchers[i]
       /\ IngestStep => pending_amount' = pending_amount
      ]_vars

\* Each requester holds a pending voucher and one of them has a session open.
C28_Witness ==
    \E a, b \in Users :
        /\ a # b
        /\ pending_amount[b] # NoSession
        /\ \E i, j \in 1..Len(vouchers) :
               /\ vouchers[i].status = "pending" /\ vouchers[i].assigned_to = a
               /\ vouchers[j].status = "pending" /\ vouchers[j].assigned_to = b

----------------------------------------------------------------------------
(* Properties of best_combination, under SpecEngine *)

EngAmount == [i \in 1..Len(engIn) |-> engIn[i][2]]

\* C3: the achieved sum is <= target and is the largest sum <= target of any
\* subset of the input vouchers.
C3_MaximalSubsetSum ==
    engOut # NoResult =>
        /\ engOut[2] <= engTarget
        /\ \A S \in SUBSET (1..Len(engIn)) :
               SumOver(EngAmount, S) <= engTarget => SumOver(EngAmount, S) <= engOut[2]
        /\ SumOver(EngAmount, IdSet(engOut[1])) = engOut[2]

\* The same for inputs without negative amounts (what the mail sweep alone
\* can store).
C3_MaximalForNonNegative ==
    (\A i \in 1..Len(engIn) : engIn[i][2] >= 0) => C3_MaximalSubsetSum

\* One voucher of the sweep, on the map sum -> ids of the subset that first
\* reached it: sums already recorded keep their subset, a new sum gets the
\* subset of the sum it was reached from, plus this voucher.
FirstStep(first, vid, amt, target) ==
    LET old == DOMAIN first
        new == {t \in {s + amt : s \in old} : t <= target /\ t \notin old}
    IN [t \in old \cup new |-> IF t \in old THEN first[t] ELSE Append(first[t - amt], vid)]

RECURSIVE FirstReached(_, _, _, _)
FirstReached(first, vl, k, target) ==
    IF k > Len(vl) THEN first
    ELSE FirstReached(FirstStep(first, vl[k][1], vl[k][2], target), vl, k + 1, target)

\* C22: the ids returned are those of the subset that first reached the best
\* sum while the vouchers were swept in input order; for the vouchers
\* (1,100), (2,150), (3,80) and target 230 that is [2, 3] with sum 230.
C22_FirstReachedSubset ==
    engOut # NoResult =>
        LET first == FirstReached([s \in {0} |-> <<>>], engIn, 1, engTarget)
            best == CHOOSE s \in DOMAIN first : \A t \in DOMAIN first : t <= s
        IN /\ engOut = <<first[best], best>>
           /\ (engIn = EngExample /\ engTarget = 230) => engOut = << <<2, 3>>, 230 >>

\* The example's result, and a list where two subsets reach the best sum.
C22_Witness ==
    \/ engIn = EngExample /\ engTarget = 230 /\ engOut = << <<2, 3>>, 230 >>
    \/ engIn = << <<1, 1>>, <<2, 1>> >> /\ engTarget = 1 /\ engOut = << <<1>>, 1 >>

\* The orderings of the input list.
Orderings(vl) ==
    {[i \in 1..Len(vl) |-> vl[f[i]]] :
        f \in {g \in [1..Len(vl) -> 1..Len(vl)] :
                   \A i, j \in 1..Len(vl) : i # j => g[i] # g[j]}}

\* C23: the achieved sum is the same for every ordering of the input list.
C23_SumIndependentOfOrder ==
    engOut # NoResult =>
        \A p \in Orderings(engIn) : best_combination(p, engTarget)[2] = engOut[2]

\* The same for inputs without negative amounts.
C23_SumIndependentForNonNegative ==
    (\A i \in 1..Len(engIn) : engIn[i][2] >= 0) => C23_SumIndependentOfOrder

\* Place of id v in the input list.
PlaceOf(vl, v) == CHOOSE i \in 1..Len(vl) : vl[i][1] = v

\* C24: the ids returned are ids of input vouchers, each at most once and in
\* input order, and their amounts add up to the returned sum; the result is
\* (empty, 0) when every amount exceeds the target, when the target is 0 and
\* when the input is empty.
C24_ResultWellFormed ==
    engOut # NoResult =>
        LET ids == engOut[1] IN
        /\ \A k \in 1..Len(ids) : \E i \in 1..Len(engIn) : engIn[i][1] = ids[k]
        /\ \A k, l \in 1..Len(ids) :
               k < l => PlaceOf(engIn, ids[k]) < PlaceOf(engIn, ids[l])
        /\ SumOver([v \in IdSet(ids) |-> engIn[PlaceOf(engIn, v)][2]], IdSet(ids)) = engOut[2]
        /\ ((\A i \in 1..Len(engIn) : engIn[i][2] > engTarget)
               \/ engTarget = 0 \/ engIn = <<>>) => engOut = << <<>>, 0 >>

\* Two vouchers chosen out of three; and a target of 0 over a list with a
\* zero and a negative amount.
C24_Witness ==
    \/ Len(engIn) = MaxLen /\ engOut # NoResult /\ Len(engOut[1]) = 2 /\ engOut[2] = MaxT
    \/ engIn = << <<1, 0>>, <<2, -1>> >> /\ engTarget = 0 /\ engOut = << <<>>, 0 >>

====
